---- MODULE Spec2Model ----
(***************************************************************************)
(* A model of the social-graph API of simple_model: the users and          *)
(* friendships collections, UserService's handlers (split at their store   *)
(* operations, which are the points where concurrent requests interleave)  *)
(* and CursorPagination.paginate.                                          *)
(*                                                                         *)
(* Python values: a str is a sequence of characters, a character is a      *)
(* natural number (the hexadecimal digits are 0..15); None is the          *)
(* sequence <<-1>>, which is no str.  An ObjectId is a natural number; the *)
(* driver hands them out in increasing order.                              *)
(***************************************************************************)
EXTENDS Integers, Sequences, FiniteSets, TLC

VARIABLES
    users,        \* the users collection: a set of documents
    friendships,  \* the friendships collection: a set of documents
    nextOid,      \* the next ObjectId the driver generates
    nextUuid4,    \* the next value uuid.uuid4() returns
    now,          \* datetime.now()
    tasks,        \* the requests in flight: task -> its handler's frame
    sess,         \* a client following the pages of one listing
    ret           \* the outcome of the last single-operation handler

vars == <<users, friendships, nextOid, nextUuid4, now, tasks, sess, ret>>

----------------------------------------------------------------------------
(* Bounds of the model *)

OidHexLen == 2
MaxInserts == 2
MaxSeed == 15
MaxPage == 2
MaxCreates == 3
NEmails == 2
NCodes == 2
MaxFirst == 10
MaxFriendUsers == 2
MaxFriendships == 2
MaxClock == 2

\* The users of a friendship graph besides the two whose mutual friends
\* are asked for.
MaxOthers == 4

\* The pages a client asks for before it gives up on a listing that
\* does not end.
MaxFetches == 3

MaxFilterUsers == 4

MaxOrdered == 3

MaxDelUsers == 3

(* Program constants *)

DefaultLimit == 10
DefaultFriendsLimit == 10

----------------------------------------------------------------------------
(* Python values *)

None == <<-1>>

Truthy(s) == s # None /\ s # <<>>

Max(a, b) == IF a >= b THEN a ELSE b

Min(a, b) == IF a <= b THEN a ELSE b

RECURSIVE Pow(_, _)
Pow(b, e) == IF e = 0 THEN 1 ELSE b * Pow(b, e - 1)

\* str(ObjectId): the identifier's hexadecimal text, most significant digit first.
OidStr(oid) == [i \in 1..OidHexLen |-> (oid \div Pow(16, OidHexLen - i)) % 16]

\* ObjectId.is_valid on a str: the right number of hexadecimal digits.
OidValid(s) == /\ Len(s) = OidHexLen
               /\ \A i \in 1..Len(s) : s[i] \in 0..15

RECURSIVE HexValue(_)
HexValue(s) == IF s = <<>> THEN 0 ELSE 16 * HexValue(SubSeq(s, 1, Len(s) - 1)) + s[Len(s)]

\* ObjectId(s): the identifier a valid text denotes.
OidParse(s) == HexValue(s)

\* Optional[int]: the empty set is None, {n} is the integer n.
NoInt == {}

Int1(n) == {n}

IntOf(o) == CHOOSE n \in o : TRUE

----------------------------------------------------------------------------
(* The store: documents, queries and the unique indexes *)

\* A condition of a store query, and a value of a filter: a plain value
\* (compared by equality) or an operator document such as {'$gt': x}.
NoneV == [t |-> "none", v |-> None]

Val(x) == [t |-> "val", v |-> x]

OpGt(x) == [t |-> "$gt", v |-> x]

OpLt(x) == [t |-> "$lt", v |-> x]

\* {'$gt': x, '$lt': y}
OpGtLt(x, y) == [t |-> "$gt$lt", v |-> <<x, y>>]

\* The list of queries given to '$or'.
OrList(qs) == [t |-> "$or", v |-> qs]

OpIn(xs) == [t |-> "$in", v |-> xs]

OpRegex(x) == [t |-> "$regex", v |-> x]

\* Python's `x in s` on two str: s has x as a contiguous substring.
Contains(s, x) == \E i \in 0..(Len(s) - Len(x)) : SubSeq(s, i + 1, i + Len(x)) = x

\* Whether a document satisfies one condition of a query on one field.  A
\* field the document lacks matches nothing but None.
RECURSIVE MatchCond(_, _, _)
MatchCond(doc, field, c) ==
    IF field = "$or"
    THEN \E i \in 1..Len(c.v) : \A f \in DOMAIN c.v[i] : MatchCond(doc, f, c.v[i][f])
    ELSE IF field \notin DOMAIN doc THEN c.t = "none"
    ELSE CASE c.t = "val"    -> doc[field] = c.v
           [] c.t = "none"   -> FALSE
           [] c.t = "$gt"    -> doc[field] > c.v
           [] c.t = "$lt"    -> doc[field] < c.v
           [] c.t = "$gt$lt" -> doc[field] > c.v[1] /\ doc[field] < c.v[2]
           [] c.t = "$in"    -> doc[field] \in c.v
           [] c.t = "$regex" -> doc[field] # None /\ Contains(doc[field], c.v)
           [] OTHER          -> FALSE

\* find(query): a query is a dict from field names to conditions, all of
\* which a matching document satisfies.
Matches(doc, query) == \A f \in DOMAIN query : MatchCond(doc, f, query[f])

Find(coll, query) == {d \in coll : Matches(d, query)}

\* sort([('_id', 1)]): the documents in ascending order of _id.
RECURSIVE SortById(_)
SortById(S) ==
    IF S = {} THEN <<>>
    ELSE LET d == CHOOSE x \in S : \A y \in S : x._id <= y._id
         IN <<d>> \o SortById(S \ {d})

\* Take without the over-fetch: one document fewer than asked for.
TakeOneLess(seq, n) == SubSeq(seq, 1, Min(n - 1, Len(seq)))

\* limit(n) followed by to_list(length=n), n >= 1: the first n documents.
Take(seq, n) == SubSeq(seq, 1, Min(n, Len(seq)))

\* The empty dict.
EmptyDict == [f \in {} |-> NoneV]

\* d[k] = c on a dict: the key's earlier value, if any, is replaced.
DictSet(d, k, c) == [f \in DOMAIN d \cup {k} |-> IF f = k THEN c ELSE d[f]]

\* key.endswith('_contains')
EndsWithContains(key) ==
    key \in {"name_contains", "email_contains"}

\* mapped_key.replace('_contains', '')
StripContains(key) ==
    CASE key = "name_contains"  -> "name"
      [] key = "email_contains" -> "email"
      [] OTHER                  -> key

\* field_mappings.get(key, key)
MapGet(mappings, key) == IF key \in DOMAIN mappings THEN mappings[key] ELSE key

\* CompileFilter without the test `value is not None`.
RECURSIVE CompileFilterKeepNone(_, _, _)
CompileFilterKeepNone(fp, mappings, query) ==
    IF fp = <<>> THEN query
    ELSE LET key == fp[1][1]
             value == fp[1][2]
             mapped_key == MapGet(mappings, key)
             q == IF EndsWithContains(key)
                  THEN DictSet(query, StripContains(mapped_key), OpRegex(value.v))
                  ELSE DictSet(query, mapped_key, value)
         IN CompileFilterKeepNone(Tail(fp), mappings, q)

\* The loop over filter_params.items(): filter_params is the sequence of
\* its (key, value) pairs in the dict's order.
RECURSIVE CompileFilter(_, _, _)
CompileFilter(fp, mappings, query) ==
    IF fp = <<>> THEN query
    ELSE LET key == fp[1][1]
             value == fp[1][2]
             mapped_key == MapGet(mappings, key)
             q == IF value.t = "none" THEN query
                  ELSE IF EndsWithContains(key)
                       THEN DictSet(query, StripContains(mapped_key), OpRegex(value.v))
                       ELSE DictSet(query, mapped_key, value)
         IN CompileFilter(Tail(fp), mappings, q)

\* PaginateQuery with the cursor's own record let through ($gte for $gt).
PaginateQueryInclusive(after, fp, mappings) ==
    LET q0 == IF Truthy(after) THEN DictSet(EmptyDict, "_id", OpGt(OidParse(after) - 1))
              ELSE EmptyDict
    IN CompileFilter(fp, mappings, q0)

\* The query paginate builds from its cursor and its filter.
PaginateQuery(after, fp, mappings) ==
    LET q0 == IF Truthy(after) THEN DictSet(EmptyDict, "_id", OpGt(OidParse(after)))
              ELSE EmptyDict
    IN CompileFilter(fp, mappings, q0)

\* limit = first or 10
LimitOf(first) == IF first = NoInt \/ IntOf(first) = 0 THEN DefaultLimit ELSE IntOf(first)

\* HasNextPage with >= for >.
HasNextPageFull(results, limit) == Len(results) >= limit

\* len(results) > limit
HasNextPage(results, limit) == Len(results) > limit

\* CursorPagination.paginate with the default sort.  first is None or a
\* natural number; a cursor that is no ObjectId text raises bson's InvalidId.
Paginate(coll, mappings, first, after, fp) ==
    IF Truthy(after) /\ ~OidValid(after)
    THEN [err |-> "InvalidId", items |-> <<>>, has_next |-> FALSE]
    ELSE LET query == PaginateQuery(after, fp, mappings)
             limit == LimitOf(first)
             results == Take(SortById(Find(coll, query)), limit + 1)
             has_next_page == HasNextPage(results, limit)
         IN [err |-> "ok",
             items |-> IF has_next_page THEN SubSeq(results, 1, Len(results) - 1)
                       ELSE results,
             has_next |-> has_next_page]

\* The field mappings of get_users_with_filters.
UserFieldMappings ==
    [k \in {"name_contains", "email_contains", "created_after", "created_before",
            "is_active"} |->
        CASE k = "name_contains"  -> "name"
          [] k = "email_contains" -> "email"
          [] k = "created_after"  -> "created_at"
          [] k = "created_before" -> "created_at"
          [] OTHER                -> "is_active"]

\* UserService.get_users_with_filters without a search query.
GetUsersWithFilters(first, after, fp) ==
    Paginate(users, UserFieldMappings, first, after, fp)

----------------------------------------------------------------------------
(* The unique indexes of Database.connect_db *)

\* UsersIndexAdmits without the unique index on email.
UsersIndexAdmitsAnyEmail(coll, doc) ==
    \A d \in coll : /\ d.uuid # doc.uuid
                    /\ d.referral_code # doc.referral_code

\* users: unique indexes on uuid, email and referral_code.
UsersIndexAdmits(coll, doc) ==
    \A d \in coll : /\ d.uuid # doc.uuid
                    /\ d.email # doc.email
                    /\ d.referral_code # doc.referral_code

\* friendships: a unique index on uuid and a unique compound index on
\* (user1_uuid, user2_uuid), in the order stored.
FriendshipsIndexAdmits(coll, doc) ==
    \A d \in coll : /\ d.uuid # doc.uuid
                    /\ ~(d.user1_uuid = doc.user1_uuid /\ d.user2_uuid = doc.user2_uuid)

\* find_one(query): a matching document, or None (here the empty set).
FindOne(coll, query) == Find(coll, query)

----------------------------------------------------------------------------
(* Requests in flight *)

\* Two requests are served concurrently.
Tasks == {1, 2}

\* The frame of a request: its handler, the store operation it is about
\* to perform, its arguments and locals, and the outcome once it is done.
IdleFrame ==
    [op |-> "idle", pc |-> "idle",
     email |-> None, name |-> None, password |-> None, is_active |-> {},
     refcode |-> None,
     code |-> None, referred_by |-> None, uuid |-> None, oid |-> 0, ts |-> 0,
     a |-> None, b |-> None, from_found |-> FALSE, to_found |-> FALSE,
     res |-> FALSE, result |-> {}, err |-> "none"]

\* A request is served by the lowest-numbered task that is free.
Free(t) ==
    /\ tasks[t].op = "idle"
    /\ \A u \in Tasks : u < t => tasks[u].op # "idle"

\* The characters of the model's e-mail addresses, names and referral codes.
Email(n) == <<100 + n>>

Name(n) == <<200 + n>>

Code(n) == <<300 + n>>

Password(n) == <<500 + n>>

\* UserService.create_user, called: nothing has touched the store yet.
\* is_active is the empty set when the caller did not supply it and the
\* set of its value when he did.
CallCreateUser(t, emails, names, passwords, actives, refcodes) ==
    /\ Free(t)
    /\ \E e \in emails, n \in names, pw \in passwords, ac \in actives, rc \in refcodes :
          tasks' = [tasks EXCEPT ![t] =
                       [IdleFrame EXCEPT !.op = "create_user", !.pc = "ensure_code",
                                         !.email = e, !.name = n, !.password = pw,
                                         !.is_active = ac,
                                         !.refcode = rc]]
    /\ UNCHANGED <<users, friendships, nextOid, nextUuid4, now, sess, ret>>

\* The frame after line 47 of create_user: both timestamps are `now`, the
\* uuid is a fresh ObjectId's text, and insert_one, issued without another
\* await, gives the document the next ObjectId as its _id.
ReadyToInsert(f, referred_by) ==
    [f EXCEPT !.pc = "insert", !.referred_by = referred_by, !.ts = now,
              !.uuid = OidStr(nextOid), !.oid = nextOid + 1]

\* _ensure_unique_referral_code: one turn of its loop, one find_one.  The
\* token generator returns any of `codes`; a token in use is tried again.
EnsureUniqueReferralCode(t, codes) ==
    /\ tasks[t].op = "create_user" /\ tasks[t].pc = "ensure_code"
    /\ \E code \in codes :
          LET existing == FindOne(users, DictSet(EmptyDict, "referral_code", Val(code)))
              f == [tasks[t] EXCEPT !.code = code]
          IN IF existing # {}
             THEN UNCHANGED <<tasks, nextOid>>
             ELSE IF Truthy(f.refcode)
                  THEN /\ tasks' = [tasks EXCEPT ![t] = [f EXCEPT !.pc = "referrer"]]
                       /\ UNCHANGED nextOid
                  ELSE /\ tasks' = [tasks EXCEPT ![t] = ReadyToInsert(f, None)]
                       /\ nextOid' = nextOid + 2
    /\ UNCHANGED <<users, friendships, nextUuid4, now, sess, ret>>

\* create_user's lookup of the referrer by the referral code supplied.
FindReferrer(t) ==
    /\ tasks[t].op = "create_user" /\ tasks[t].pc = "referrer"
    /\ LET referrer == FindOne(users, DictSet(EmptyDict, "referral_code",
                                               Val(tasks[t].refcode)))
           referred_by == IF referrer # {} THEN (CHOOSE d \in referrer : TRUE).uuid
                          ELSE None
       IN tasks' = [tasks EXCEPT ![t] = ReadyToInsert(tasks[t], referred_by)]
    /\ nextOid' = nextOid + 2
    /\ UNCHANGED <<users, friendships, nextUuid4, now, sess, ret>>

\* UserCreate.model_dump(): every field of the model, is_active by its
\* default (True) when the caller did not supply it.
UserCreateModelDump(f) ==
    [email |-> f.email, name |-> f.name,
     is_active |-> IF f.is_active = {} THEN TRUE ELSE CHOOSE v \in f.is_active : TRUE,
     password |-> f.password, referral_code |-> f.refcode]

\* del d[k] with nothing deleted.
DictDelNothing(d, k) == d

\* del d[k]
DictDel(d, k) == [g \in DOMAIN d \ {k} |-> d[g]]

\* d.update(e)
DictUpdate(d, e) == [g \in DOMAIN d \cup DOMAIN e |-> IF g \in DOMAIN e THEN e[g] ELSE d[g]]

\* The document create_user inserts and returns: the dump without the
\* password, the generated referral code in the place of the caller's,
\* referred_by (None standing for the key's absence), the uuid and the
\* timestamps, and the _id that insert_one adds to it.
UserDoc(f) ==
    LET user_dict == DictDel(UserCreateModelDump(f), "password")
    IN DictUpdate(user_dict,
                  [referral_code |-> f.code, referred_by |-> f.referred_by,
                   uuid |-> f.uuid, created_at |-> f.ts, updated_at |-> f.ts,
                   _id |-> f.oid])

\* db.users.insert_one at the store: the unique indexes admit the document
\* or the driver raises DuplicateKeyError, which create_user lets through.
InsertUser(t) ==
    /\ tasks[t].op = "create_user" /\ tasks[t].pc = "insert"
    /\ IF UsersIndexAdmits(users, UserDoc(tasks[t]))
       THEN /\ users' = users \cup {UserDoc(tasks[t])}
            /\ tasks' = [tasks EXCEPT ![t].pc = "done", ![t].err = "ok"]
       ELSE /\ users' = users
            /\ tasks' = [tasks EXCEPT ![t].pc = "done", ![t].err = "DuplicateKeyError"]
    /\ UNCHANGED <<friendships, nextOid, nextUuid4, now, sess, ret>>

\* The response is sent and the task serves the next request.
Return(t) ==
    /\ tasks[t].pc = "done"
    /\ tasks' = [tasks EXCEPT ![t] = IdleFrame]
    /\ UNCHANGED <<users, friendships, nextOid, nextUuid4, now, sess, ret>>

----------------------------------------------------------------------------
(* A client following the pages of the users listing *)

NoPage == [err |-> "ok", items |-> <<>>, has_next |-> FALSE]

\* No listing has been started.
NoSess ==
    [state |-> "none", uuid |-> None, first |-> NoInt, fp |-> <<>>, order_by |-> {},
     after |-> None,
     seen |-> <<>>, n |-> 0, last |-> NoPage, at |-> {}]

NoRet == [op |-> "none"]

\* The filters a caller of the listing supplies: none, or is_active set to
\* a value.
ActiveFilters ==
    {<<>>, << <<"is_active", Val(TRUE)>> >>, << <<"is_active", Val(FALSE)>> >>}

\* The page sizes a caller supplies: the natural numbers up to n.
Firsts(n) == {Int1(k) : k \in 0..n}

\* The client chooses the page size and the filter of its listing.
StartListing(firsts, filters) ==
    /\ sess.state = "none"
    /\ \E first \in firsts, fp \in filters :
          sess' = [NoSess EXCEPT !.state = "open", !.first = first, !.fp = fp]
    /\ UNCHANGED <<users, friendships, nextOid, nextUuid4, now, tasks, ret>>

\* The edge cursor the presentation layer issues for an item: str(user['_id']).
EdgeCursor(doc) == OidStr(doc._id)

\* One call of get_users_with_filters (one find at the store), with no
\* cursor at first and then with the cursor of the previous page's last
\* item.  A page without items has no last item: the listing ends.
FetchPage ==
    /\ sess.state = "open"
    /\ LET r == GetUsersWithFilters(sess.first, sess.after, sess.fp)
           n == Len(r.items)
       IN sess' = [sess EXCEPT
                      !.last = r, !.at = users, !.n = sess.n + 1,
                      !.seen = sess.seen \o r.items,
                      !.after = IF n > 0 THEN EdgeCursor(r.items[n]) ELSE sess.after,
                      !.state = IF n > 0 THEN "open" ELSE "end"]
    /\ UNCHANGED <<users, friendships, nextOid, nextUuid4, now, tasks, ret>>

----------------------------------------------------------------------------
(* Paginating the users listing while users are created *)

\* The create_user calls that have not yet drawn their ObjectIds.
Undrawn == {t \in Tasks : tasks[t].op = "create_user"
                          /\ tasks[t].pc \in {"ensure_code", "referrer"}}

\* At most n create_user calls are made in all.
CreateBudget(n) == nextOid + 2 * Cardinality(Undrawn) < 1 + 2 * n

\* A number no other call shares, for callers that supply fresh e-mail
\* addresses and a token generator that never repeats itself.
CallNo(t) == Cardinality(Tasks) * nextOid + t

EmptyStore ==
    /\ users = {}
    /\ friendships = {}
    /\ nextOid = 1
    /\ nextUuid4 = 1
    /\ now = 0

InitPaginate ==
    /\ EmptyStore
    /\ tasks = [t \in Tasks |-> IdleFrame]
    /\ sess = NoSess
    /\ ret = NoRet

NextPaginate ==
    \/ \E t \in Tasks :
          /\ CreateBudget(MaxInserts)
          /\ CallCreateUser(t, {Email(CallNo(t))}, {Name(1)}, {Password(1)},
                            {{}, {FALSE}}, {None})
    \/ \E t \in Tasks : EnsureUniqueReferralCode(t, {Code(CallNo(t))})
    \/ \E t \in Tasks : InsertUser(t)
    \/ \E t \in Tasks : Return(t)
    \/ StartListing(Firsts(MaxPage), ActiveFilters)
    \/ FetchPage

SpecPaginate == InitPaginate /\ [][NextPaginate]_vars

----------------------------------------------------------------------------
(* Claims about paginate under insertion *)

\* The records a filter selects, said without the paginator: every
\* predicate whose value is not None holds of the record.
Selected(doc, fp) ==
    \A i \in 1..Len(fp) : fp[i][2].t = "none" \/ doc[fp[i][1]] = fp[i][2].v

\* The identifier of the last item returned before the last page (0: none).
PassedBefore ==
    LET k == Len(sess.seen) - Len(sess.last.items)
    IN IF k > 0 THEN sess.seen[k]._id ELSE 0

\* The identifier of the last item returned so far (0: none).
PassedNow == IF sess.seen = <<>> THEN 0 ELSE sess.seen[Len(sess.seen)]._id

\* C1: with the default sort, the items of the pages fetched so far, each
\* with the cursor of the previous page's last item, are strictly ascending
\* by store identifier (so none is there twice), every item of a page was in
\* the store when the page was fetched, and the last page omits no selected
\* record that was in the store at its fetch and lies between the previous
\* cursor and the page's last item (or anywhere after the previous cursor,
\* when the page reports no next page), however inserts interleave.
C1_StableUnderInsertion ==
    /\ \A i, j \in 1..Len(sess.seen) : i < j => sess.seen[i]._id < sess.seen[j]._id
    /\ \A i \in 1..Len(sess.last.items) :
          sess.last.items[i] \in sess.at /\ Selected(sess.last.items[i], sess.fp)
    /\ \A d \in sess.at :
          (/\ Selected(d, sess.fp)
           /\ d._id > PassedBefore
           /\ (d._id <= PassedNow \/ (sess.n > 0 /\ ~sess.last.has_next)))
          => \E i \in 1..Len(sess.seen) : sess.seen[i] = d

\* C1's case: a page has been fetched with the cursor of the page before,
\* and a selected record was inserted between the two fetches: it is in the
\* store at the last fetch, behind the cursor, and was not there when its
\* position was passed.
C1_Witness ==
    /\ sess.n >= 2
    /\ \E d \in sess.at :
          /\ Selected(d, sess.fp)
          /\ d._id < PassedNow
          /\ \A i \in 1..Len(sess.seen) : sess.seen[i] # d

\* C2: a page with items reports has_next exactly when, at the time of the
\* query, a selected record with an identifier greater than that of the
\* page's last item is in the store.
C2_HasNextIffMore ==
    (sess.n > 0 /\ sess.last.err = "ok" /\ sess.last.items # <<>>)
    => (sess.last.has_next
        <=> \E d \in sess.at : Selected(d, sess.fp) /\ d._id > PassedNow)

\* C2's case: a page of a filtered listing has items and reports no next
\* page while the store holds, after the page's last item, a record the
\* filter does not select.
C2_Witness ==
    /\ sess.n > 0 /\ sess.last.items # <<>> /\ sess.fp # <<>>
    /\ ~sess.last.has_next
    /\ \E d \in sess.at : ~Selected(d, sess.fp) /\ d._id > PassedNow

\* C10: paginate with a page size of zero or less is rejected with
\* InvalidArgument and returns no page.
C10_NonPositiveRejected ==
    (sess.n > 0 /\ sess.first # NoInt /\ IntOf(sess.first) <= 0)
    => (sess.last.err = "InvalidArgument" /\ sess.last.items = <<>>)

----------------------------------------------------------------------------
(* Paginating a collection that does not change *)

\* The i-th user that scripts/seed_database.py's create_random_users
\* creates, one create_user call after the other, on an empty store.
SeedUser(i, active) ==
    UserDoc([IdleFrame EXCEPT !.email = Email(i), !.name = Name(1), !.is_active = {active},
                              !.code = Code(i), !.uuid = OidStr(2 * i - 1), !.oid = 2 * i])

\* random.choice([True, True, True, False]), taken here from two patterns:
\* every user active, or every second one.
SeedActive(pattern, i) == pattern = "all" \/ i % 2 = 1

SeedUsers(n, pattern) == {SeedUser(i, SeedActive(pattern, i)) : i \in 1..n}

\* The filters of a listing, with is_active explicitly None among them.
StaticFilters == ActiveFilters \cup {<< <<"is_active", NoneV>> >>}

InitStatic ==
    /\ \E n \in 0..MaxSeed, pattern \in {"all", "alt"} :
          /\ users = SeedUsers(n, pattern)
          /\ nextOid = 2 * n + 1
    /\ friendships = {}
    /\ nextUuid4 = 1
    /\ now = 0
    /\ tasks = [t \in Tasks |-> IdleFrame]
    /\ sess = NoSess
    /\ ret = NoRet

NextStatic ==
    \/ StartListing(Firsts(MaxFirst) \cup {NoInt}, StaticFilters)
    \/ FetchPage

SpecStatic == InitStatic /\ [][NextStatic]_vars

\* The position at which a seeded user was inserted.
InsertedAt(d) == d.email[1] - 100

\* The selected records in the order of their insertion.
RECURSIVE InInsertionOrder(_)
InInsertionOrder(S) ==
    IF S = {} THEN <<>>
    ELSE LET d == CHOOSE x \in S : \A y \in S : InsertedAt(x) <= InsertedAt(y)
         IN <<d>> \o InInsertionOrder(S \ {d})

SelectedInOrder == InInsertionOrder({d \in users : Selected(d, sess.fp)})

\* C3: on a collection that does not change and holds N selected records,
\* the k-th page fetched with page size P >= 1 holds exactly the records at
\* insertion positions (k-1)*P+1 .. min(k*P, N), in insertion order, at most
\* P of them, and has_next is true exactly when k*P < N.
C3_StaticPages ==
    (sess.n >= 1 /\ sess.first # NoInt /\ IntOf(sess.first) >= 1)
    => LET P == IntOf(sess.first)
           k == sess.n
           N == Len(SelectedInOrder)
       IN /\ sess.last.err = "ok"
          /\ sess.last.items = SubSeq(SelectedInOrder, (k - 1) * P + 1, Min(k * P, N))
          /\ Len(sess.last.items) <= P
          /\ sess.last.has_next = (k * P < N)

\* C3's case: 15 records, page size 10: the second page, fetched with the
\* first page's cursor, has the remaining 5 items.
C3_Witness ==
    /\ Cardinality(users) = 15 /\ sess.fp = <<>>
    /\ sess.first = Int1(10) /\ sess.n = 2
    /\ Len(sess.last.items) = 5 /\ Len(sess.seen) = 15

----------------------------------------------------------------------------
(* Concurrent create_user calls *)

Emails == {Email(i) : i \in 1..NEmails}

Codes == {Code(i) : i \in 1..NCodes}

InitCreate ==
    /\ EmptyStore
    /\ tasks = [t \in Tasks |-> IdleFrame]
    /\ sess = NoSess
    /\ ret = NoRet

NextCreate ==
    \/ \E t \in Tasks :
          /\ CreateBudget(MaxCreates)
          /\ CallCreateUser(t, Emails, {Name(1)}, {Password(1)}, {{}}, {None, Code(1)})
    \/ \E t \in Tasks : EnsureUniqueReferralCode(t, Codes)
    \/ \E t \in Tasks : FindReferrer(t)
    \/ \E t \in Tasks : InsertUser(t)
    \/ \E t \in Tasks : Return(t)

SpecCreate == InitCreate /\ [][NextCreate]_vars

\* A create_user call that has completed and whose response is at hand.
CreateDone(t) == tasks[t].op = "create_user" /\ tasks[t].pc = "done"

\* The users, other than the one the call of task t made, that hold its
\* e-mail address.
OthersWithEmail(t) ==
    {d \in users : d.email = tasks[t].email /\ d.uuid # tasks[t].uuid}

C9_DuplicateEmailValueError ==
    \A t \in Tasks :
       (CreateDone(t) /\ OthersWithEmail(t) # {})
       => /\ tasks[t].err = "ValueError: Email already exists"
          /\ \A d \in users : d.uuid # tasks[t].uuid

----------------------------------------------------------------------------
(* Friendships *)

\* str(uuid.uuid4()): a text no other call returns.
Uuid4(n) == <<400 + n>>

\* A query for the pair in the order given only.
PairQueryOneWay(x, y) ==
    << DictSet(DictSet(EmptyDict, "user1_uuid", Val(x)), "user2_uuid", Val(y)) >>

\* The $or of send_friend_request, remove_friend and get_friendship_status:
\* the pair in either stored order.
PairQuery(x, y) ==
    << DictSet(DictSet(EmptyDict, "user1_uuid", Val(x)), "user2_uuid", Val(y)),
       DictSet(DictSet(EmptyDict, "user1_uuid", Val(y)), "user2_uuid", Val(x)) >>

\* find with a top-level $or: the documents matching one of the queries.
FindOr(coll, queries) == {d \in coll : \E i \in 1..Len(queries) : Matches(d, queries[i])}

\* UserService.send_friend_request, called.
CallSendFriendRequest(t, uuids) ==
    /\ Free(t)
    /\ \E x \in uuids, y \in uuids :
          tasks' = [tasks EXCEPT ![t] =
                       [IdleFrame EXCEPT !.op = "send_friend_request", !.pc = "find_from",
                                         !.a = x, !.b = y]]
    /\ UNCHANGED <<users, friendships, nextOid, nextUuid4, now, sess, ret>>

\* from_user = find_one({"uuid": from_uuid})
FindFromUser(t) ==
    /\ tasks[t].op = "send_friend_request" /\ tasks[t].pc = "find_from"
    /\ LET from_user == FindOne(users, DictSet(EmptyDict, "uuid", Val(tasks[t].a)))
       IN tasks' = [tasks EXCEPT ![t].pc = "find_to", ![t].from_found = (from_user # {})]
    /\ UNCHANGED <<users, friendships, nextOid, nextUuid4, now, sess, ret>>

\* FindToUser without the check that prevents self-friending.
FindToUserAnyPair(t) ==
    /\ tasks[t].op = "send_friend_request" /\ tasks[t].pc = "find_to"
    /\ LET to_user == FindOne(users, DictSet(EmptyDict, "uuid", Val(tasks[t].b)))
           f == [tasks[t] EXCEPT !.to_found = (to_user # {})]
       IN tasks' = [tasks EXCEPT ![t] =
             IF ~f.from_found \/ ~f.to_found
             THEN [f EXCEPT !.pc = "done",
                            !.err = "ValueError: One or both users not found"]
             ELSE [f EXCEPT !.pc = "find_existing"]]
    /\ UNCHANGED <<users, friendships, nextOid, nextUuid4, now, sess, ret>>

\* to_user = find_one({"uuid": to_uuid}), then the two checks that need no
\* further store operation: both users found, and not the same user.
FindToUser(t) ==
    /\ tasks[t].op = "send_friend_request" /\ tasks[t].pc = "find_to"
    /\ LET to_user == FindOne(users, DictSet(EmptyDict, "uuid", Val(tasks[t].b)))
           f == [tasks[t] EXCEPT !.to_found = (to_user # {})]
       IN tasks' = [tasks EXCEPT ![t] =
             IF ~f.from_found \/ ~f.to_found
             THEN [f EXCEPT !.pc = "done",
                            !.err = "ValueError: One or both users not found"]
             ELSE IF f.a = f.b
                  THEN [f EXCEPT !.pc = "done",
                                 !.err = "ValueError: Cannot friend yourself"]
                  ELSE [f EXCEPT !.pc = "find_existing"]]
    /\ UNCHANGED <<users, friendships, nextOid, nextUuid4, now, sess, ret>>

\* existing = find_one({"$or": [...]}); when there is none the friendship
\* document is built and insert_one, issued without another await, gives
\* it the next ObjectId as its _id.
FindExistingFriendship(t) ==
    /\ tasks[t].op = "send_friend_request" /\ tasks[t].pc = "find_existing"
    /\ LET existing == FindOr(friendships, PairQuery(tasks[t].a, tasks[t].b))
           f == tasks[t]
       IN IF existing # {}
          THEN /\ tasks' = [tasks EXCEPT ![t] =
                               [f EXCEPT !.pc = "done",
                                         !.err = "ValueError: Users are already friends"]]
               /\ UNCHANGED <<nextOid, nextUuid4>>
          ELSE /\ tasks' = [tasks EXCEPT ![t] =
                               [f EXCEPT !.pc = "insert_friendship", !.ts = now,
                                         !.uuid = Uuid4(nextUuid4), !.oid = nextOid]]
               /\ nextOid' = nextOid + 1
               /\ nextUuid4' = nextUuid4 + 1
    /\ UNCHANGED <<users, friendships, now, sess, ret>>

\* The document send_friend_request inserts.
FriendshipDoc(f) ==
    [_id |-> f.oid, uuid |-> f.uuid, user1_uuid |-> f.a, user2_uuid |-> f.b,
     created_at |-> f.ts]

\* db.friendships.insert_one at the store.
InsertFriendship(t) ==
    /\ tasks[t].op = "send_friend_request" /\ tasks[t].pc = "insert_friendship"
    /\ IF FriendshipsIndexAdmits(friendships, FriendshipDoc(tasks[t]))
       THEN /\ friendships' = friendships \cup {FriendshipDoc(tasks[t])}
            /\ tasks' = [tasks EXCEPT ![t].pc = "done", ![t].err = "ok"]
       ELSE /\ friendships' = friendships
            /\ tasks' = [tasks EXCEPT ![t].pc = "done", ![t].err = "DuplicateKeyError"]
    /\ UNCHANGED <<users, nextOid, nextUuid4, now, sess, ret>>

\* UserService.remove_friend, called.
CallRemoveFriend(t, uuids) ==
    /\ Free(t)
    /\ \E x \in uuids, y \in uuids :
          tasks' = [tasks EXCEPT ![t] =
                       [IdleFrame EXCEPT !.op = "remove_friend", !.pc = "find_user",
                                         !.a = x, !.b = y]]
    /\ UNCHANGED <<users, friendships, nextOid, nextUuid4, now, sess, ret>>

\* user = find_one({"uuid": uuid_1})
RemoveFindUser(t) ==
    /\ tasks[t].op = "remove_friend" /\ tasks[t].pc = "find_user"
    /\ LET user == FindOne(users, DictSet(EmptyDict, "uuid", Val(tasks[t].a)))
       IN tasks' = [tasks EXCEPT ![t].pc = "find_friend", ![t].from_found = (user # {})]
    /\ UNCHANGED <<users, friendships, nextOid, nextUuid4, now, sess, ret>>

\* RemoveFindFriend without the check that both users exist.
RemoveFindFriendUnchecked(t) ==
    /\ tasks[t].op = "remove_friend" /\ tasks[t].pc = "find_friend"
    /\ LET friend == FindOne(users, DictSet(EmptyDict, "uuid", Val(tasks[t].b)))
       IN tasks' = [tasks EXCEPT ![t].to_found = (friend # {}),
                                 ![t].pc = "delete_friendship"]
    /\ UNCHANGED <<users, friendships, nextOid, nextUuid4, now, sess, ret>>

\* friend = find_one({"uuid": uuid_2}), then the check that both exist.
RemoveFindFriend(t) ==
    /\ tasks[t].op = "remove_friend" /\ tasks[t].pc = "find_friend"
    /\ LET friend == FindOne(users, DictSet(EmptyDict, "uuid", Val(tasks[t].b)))
           f == [tasks[t] EXCEPT !.to_found = (friend # {})]
       IN tasks' = [tasks EXCEPT ![t] =
             IF ~f.from_found \/ ~f.to_found
             THEN [f EXCEPT !.pc = "done",
                            !.err = "ValueError: One or both users not found"]
             ELSE [f EXCEPT !.pc = "delete_friendship"]]
    /\ UNCHANGED <<users, friendships, nextOid, nextUuid4, now, sess, ret>>

\* db.friendships.delete_one({"$or": ...}): one of the matching documents,
\* whichever the store comes upon, is deleted; deleted_count > 0 is
\* returned.
DeleteFriendship(t) ==
    /\ tasks[t].op = "remove_friend" /\ tasks[t].pc = "delete_friendship"
    /\ LET matching == FindOr(friendships, PairQuery(tasks[t].a, tasks[t].b))
       IN IF matching = {}
          THEN /\ friendships' = friendships
               /\ tasks' = [tasks EXCEPT ![t].pc = "done", ![t].err = "ok",
                                         ![t].res = FALSE]
          ELSE /\ \E d \in matching : friendships' = friendships \ {d}
               /\ tasks' = [tasks EXCEPT ![t].pc = "done", ![t].err = "ok",
                                         ![t].res = TRUE]
    /\ UNCHANGED <<users, nextOid, nextUuid4, now, sess, ret>>

\* UserService.get_friendship_status: one find_one with the $or.
GetFriendshipStatus(user1_uuid, user2_uuid) ==
    LET friendship == FindOr(friendships, PairQuery(user1_uuid, user2_uuid))
    IN [are_friends |-> friendship # {}]

\* UserService.delete_user, called.
CallDeleteUser(t, uuids) ==
    /\ Free(t)
    /\ \E x \in uuids :
          tasks' = [tasks EXCEPT ![t] =
                       [IdleFrame EXCEPT !.op = "delete_user", !.pc = "delete_one", !.a = x]]
    /\ UNCHANGED <<users, friendships, nextOid, nextUuid4, now, sess, ret>>

\* DeleteOneUser with the user's friendship records deleted along with it.
DeleteOneUserCascade(t) ==
    /\ tasks[t].op = "delete_user" /\ tasks[t].pc = "delete_one"
    /\ LET gone == Find(users, DictSet(EmptyDict, "uuid", Val(tasks[t].a)))
       IN /\ users' = users \ gone
          /\ friendships' = {f \in friendships : tasks[t].a \notin {f.user1_uuid, f.user2_uuid}}
          /\ tasks' = [tasks EXCEPT ![t].pc = "done", ![t].err = "ok",
                                    ![t].res = (gone # {})]
    /\ UNCHANGED <<nextOid, nextUuid4, now, sess, ret>>

\* db.users.delete_one({"uuid": uuid}): it removes at most one document
\* (uuid is unique) and nothing of the friendships collection; the handler
\* returns whether deleted_count > 0.
DeleteOneUser(t) ==
    /\ tasks[t].op = "delete_user" /\ tasks[t].pc = "delete_one"
    /\ LET gone == Find(users, DictSet(EmptyDict, "uuid", Val(tasks[t].a)))
       IN /\ users' = users \ gone
          /\ tasks' = [tasks EXCEPT ![t].pc = "done", ![t].err = "ok",
                                    ![t].res = (gone # {})]
    /\ UNCHANGED <<friendships, nextOid, nextUuid4, now, sess, ret>>

\* The user documents that get_friends' pipeline makes of friendship
\* documents: the counterpart of user_uuid is looked up in users ($lookup),
\* a friendship without such a user is dropped ($unwind), and the user
\* document takes the friendship's place ($replaceRoot).
RECURSIVE JoinFriends(_, _)
JoinFriends(fs, user_uuid) ==
    IF fs = <<>> THEN <<>>
    ELSE LET friend_uuid == IF fs[1].user1_uuid = user_uuid THEN fs[1].user2_uuid
                            ELSE fs[1].user1_uuid
             friend == Find(users, DictSet(EmptyDict, "uuid", Val(friend_uuid)))
         IN (IF friend = {} THEN <<>> ELSE <<CHOOSE d \in friend : TRUE>>)
            \o JoinFriends(Tail(fs), user_uuid)

\* UserService.get_friends: one aggregate over friendships, whose documents
\* the store yields in the order of their insertion.
GetFriends(user_uuid, limit, cursor) ==
    IF Truthy(cursor) /\ ~OidValid(cursor)
    THEN [err |-> "InvalidId", friends |-> <<>>, has_next |-> FALSE]
    ELSE LET after == IF Truthy(cursor)
                      THEN Find(friendships, DictSet(EmptyDict, "_id", OpGt(OidParse(cursor))))
                      ELSE friendships
             matched == {f \in after : f.user1_uuid = user_uuid \/ f.user2_uuid = user_uuid}
             friends == Take(JoinFriends(SortById(matched), user_uuid), limit + 1)
         IN [err |-> "ok", friends |-> Take(friends, limit),
             has_next |-> Len(friends) > limit]

\* Python values by type, for the expressions whose outcome depends on it.
PyList(x) == [type |-> "list", v |-> x]

PyBool(x) == [type |-> "bool", v |-> x]

PyDict(x) == [type |-> "dict", v |-> x]

\* What get_friends returns: the tuple (friends, has_next_page).
GetFriendsResult(r) == <<PyList(r.friends), PyBool(r.has_next)>>

\* set(friend['uuid'] for friend in xs): each element of xs is subscripted
\* with a str, which a dict allows and a list or a bool answers with
\* TypeError.
UuidSetOf(xs) ==
    IF \E i \in 1..Len(xs) : xs[i].type # "dict"
    THEN [err |-> "TypeError", v |-> {}]
    ELSE [err |-> "ok", v |-> {xs[i].v.uuid : i \in 1..Len(xs)}]

\* UserService.get_mutual_friends.
MutualFriends(user1_uuid, user2_uuid, limit, cursor) ==
    LET r1 == GetFriends(user1_uuid, DefaultFriendsLimit, None)
        user1_friends == UuidSetOf(GetFriendsResult(r1))
        r2 == GetFriends(user2_uuid, DefaultFriendsLimit, None)
        user2_friends == UuidSetOf(GetFriendsResult(r2))
    IN CASE user1_friends.err # "ok" ->
               [err |-> user1_friends.err, items |-> <<>>, has_next |-> FALSE]
         [] user2_friends.err # "ok" ->
               [err |-> user2_friends.err, items |-> <<>>, has_next |-> FALSE]
         [] OTHER ->
               Paginate(users, EmptyDict, limit, cursor,
                        << <<"uuid", OpIn(user1_friends.v \cap user2_friends.v)>> >>)

\* A request for the mutual friends of two users, served to its end.
GetMutualFriends(uuids, limits) ==
    /\ \E x \in uuids, y \in uuids, limit \in limits :
          ret' = [op |-> "get_mutual_friends", a |-> x, b |-> y, limit |-> limit,
                  page |-> MutualFriends(x, y, limit, None)]
    /\ UNCHANGED <<users, friendships, nextOid, nextUuid4, now, tasks, sess>>

----------------------------------------------------------------------------
(* Concurrent friend requests between seeded users *)

SeedUuids == {OidStr(2 * i - 1) : i \in 1..MaxFriendUsers}

\* The send_friend_request calls that have not yet built their document.
Unbuilt == {t \in Tasks : tasks[t].op = "send_friend_request"
                          /\ tasks[t].pc \in {"find_from", "find_to", "find_existing"}}

\* At most n friendship documents are built in all.
FriendBudget(n) == (nextUuid4 - 1) + Cardinality(Unbuilt) < n

InitFriends ==
    /\ users = SeedUsers(MaxFriendUsers, "all")
    /\ nextOid = 2 * MaxFriendUsers + 1
    /\ friendships = {}
    /\ nextUuid4 = 1
    /\ now = 0
    /\ tasks = [t \in Tasks |-> IdleFrame]
    /\ sess = NoSess
    /\ ret = NoRet

NextFriends ==
    \/ \E t \in Tasks :
          /\ FriendBudget(MaxFriendships)
          /\ CallSendFriendRequest(t, SeedUuids)
    \/ \E t \in Tasks : FindFromUser(t)
    \/ \E t \in Tasks : FindToUser(t)
    \/ \E t \in Tasks : FindExistingFriendship(t)
    \/ \E t \in Tasks : InsertFriendship(t)
    \/ \E t \in Tasks : Return(t)
    \/ \E t \in Tasks : CallDeleteUser(t, SeedUuids)
    \/ \E t \in Tasks : DeleteOneUser(t)

SpecFriends == InitFriends /\ [][NextFriends]_vars

\* The friendship records of the unordered pair {x, y}.
PairRecords(x, y) ==
    {f \in friendships : {f.user1_uuid, f.user2_uuid} = {x, y}}

\* A send_friend_request call that has completed.
FriendDone(t) == tasks[t].op = "send_friend_request" /\ tasks[t].pc = "done"

\* C4: each unordered pair of users has at most one friendship record,
\* whichever order it is stored in, and of two concurrent calls for the
\* same pair in opposite orders exactly one succeeds.
C4_AtMostOnePerPair ==
    /\ \A f1, f2 \in friendships :
          {f1.user1_uuid, f1.user2_uuid} = {f2.user1_uuid, f2.user2_uuid} => f1 = f2
    /\ \A t, u \in Tasks :
          (/\ t # u /\ FriendDone(t) /\ FriendDone(u)
           /\ tasks[t].a = tasks[u].b /\ tasks[t].b = tasks[u].a)
          => ~(tasks[t].err = "ok" /\ tasks[u].err = "ok")

\* The step of task t that ends its call, taken from one of the pcs.
Decides(t, pcs) ==
    /\ tasks[t].op = "send_friend_request" /\ tasks[t].pc \in pcs
    /\ tasks'[t] # tasks[t]

----------------------------------------------------------------------------
(* Mutual friends over a seeded friendship graph *)

\* Two users whose mutual friends are asked for, and the others.
Hubs == {1, 2}

Others == 3..(2 + MaxOthers)

\* The friendship document create_friendships inserts for the users seeded
\* as number h and number o.
SeedFriendship(h, o) ==
    LET k == (h - 1) * MaxOthers + (o - 2)
    IN FriendshipDoc([IdleFrame EXCEPT !.a = OidStr(2 * h - 1), !.b = OidStr(2 * o - 1),
                                       !.uuid = Uuid4(k),
                                       !.oid = 2 * (2 + MaxOthers) + k])

HubUuids == {OidStr(2 * h - 1) : h \in Hubs}

InitMutual ==
    /\ users = SeedUsers(2 + MaxOthers, "all")
    /\ \E edges \in SUBSET (Hubs \X Others) :
          friendships = {SeedFriendship(e[1], e[2]) : e \in edges}
    /\ nextOid = 2 * (2 + MaxOthers) + 2 * MaxOthers + 1
    /\ nextUuid4 = 2 * MaxOthers + 1
    /\ now = 0
    /\ tasks = [t \in Tasks |-> IdleFrame]
    /\ sess = NoSess
    /\ ret = NoRet

NextMutual == GetMutualFriends(HubUuids, {1, 2, DefaultLimit})

SpecMutual == InitMutual /\ [][NextMutual]_vars

\* The uuids of the users that have a friendship record with user x.
FriendUuids(x) ==
    {u.uuid : u \in {u \in users :
                       \E f \in friendships : {f.user1_uuid, f.user2_uuid} = {x, u.uuid}}}

\* C6: the users on the pages of the mutual friends of a and b are exactly
\* the intersection of a's and b's complete sets of friends: each page
\* holds only users of the intersection, and a page with nothing after it
\* completes it.
C6_MutualIsIntersection ==
    ret.op = "get_mutual_friends"
    => LET mutual == FriendUuids(ret.a) \cap FriendUuids(ret.b)
           got == {ret.page.items[i].uuid : i \in 1..Len(ret.page.items)}
       IN /\ ret.page.err = "ok"
          /\ got \subseteq mutual
          /\ ~ret.page.has_next => got = mutual

----------------------------------------------------------------------------
(* Partial updates of seeded users *)

\* UserPatch.model_dump(exclude_unset=True): the fields the caller set,
\* each argument being the empty set (unset) or the set of its value.
ModelDumpExcludeUnset(email, name, is_active) ==
    [f \in {g \in {"email"} : email # {}} \cup {g \in {"name"} : name # {}}
            \cup {g \in {"is_active"} : is_active # {}} |->
        CASE f = "email" -> CHOOSE v \in email : TRUE
          [] f = "name"  -> CHOOSE v \in name : TRUE
          [] OTHER       -> CHOOSE v \in is_active : TRUE]

\* $set that leaves updated_at as it is.
SetFieldsButStamp(doc, update) ==
    [f \in DOMAIN doc |-> IF f \in DOMAIN update /\ f # "updated_at"
                          THEN update[f] ELSE doc[f]]

\* $set that stamps created_at as well as updated_at.
SetFieldsAndCreated(doc, update) ==
    [f \in DOMAIN doc \cup DOMAIN update |->
        IF f = "created_at" /\ "updated_at" \in DOMAIN update THEN update["updated_at"]
        ELSE IF f \in DOMAIN update THEN update[f] ELSE doc[f]]

\* {"$set": update} on a document: the fields of update take its values,
\* the others stay.
SetFields(doc, update) ==
    [f \in DOMAIN doc \cup DOMAIN update |->
        IF f \in DOMAIN update THEN update[f] ELSE doc[f]]

\* UserService.patch_user, served to its end: an update that is not empty
\* is one find_one_and_update, which the unique indexes admit or refuse;
\* an empty one is one find_one.
PatchUser(uuids, emails, names, actives) ==
    /\ \E uuid \in uuids, email \in emails, name \in names, is_active \in actives :
          LET update_data == ModelDumpExcludeUnset(email, name, is_active)
              found == FindOne(users, DictSet(EmptyDict, "uuid", Val(uuid)))
              Returned(err, result) ==
                  [op |-> "patch_user", uuid |-> uuid, patch |-> update_data,
                   err |-> err, result |-> result]
          IN IF update_data = EmptyDict \/ found = {}
             THEN /\ users' = users
                  /\ ret' = Returned("ok", found)
             ELSE LET old == CHOOSE d \in found : TRUE
                      new == SetFields(old, [f \in DOMAIN update_data \cup {"updated_at"} |->
                                               IF f = "updated_at" THEN now
                                               ELSE update_data[f]])
                  IN IF UsersIndexAdmits(users \ {old}, new)
                     THEN /\ users' = (users \ {old}) \cup {new}
                          /\ ret' = Returned("ok", {new})
                     ELSE /\ users' = users
                          /\ ret' = Returned("DuplicateKeyError", {})
    /\ UNCHANGED <<friendships, nextOid, nextUuid4, now, tasks, sess>>

\* datetime.now() grows between requests.
Tick ==
    /\ now < MaxClock
    /\ now' = now + 1
    /\ UNCHANGED <<users, friendships, nextOid, nextUuid4, tasks, sess, ret>>

\* The seeded users of the patch scenario, the second one inactive, and a
\* uuid that no user has.
PatchUsers == {1, 2}

PatchUuids == {OidStr(2 * i - 1) : i \in PatchUsers \cup {3}}

InitUsers ==
    /\ users = {SeedUser(i, SeedActive("alt", i)) : i \in PatchUsers}
    /\ nextOid = 2 * Cardinality(PatchUsers) + 1
    /\ friendships = {}
    /\ nextUuid4 = 1
    /\ now = 0
    /\ tasks = [t \in Tasks |-> IdleFrame]
    /\ sess = NoSess
    /\ ret = NoRet

NextUsers ==
    \/ PatchUser(PatchUuids, {{}, {Email(1)}, {Email(3)}}, {{}, {Name(2)}},
                 {{}, {FALSE}})
    \/ Tick

SpecUsers == InitUsers /\ [][NextUsers]_vars

\* A patch_user call is served in this step.
PatchStep == ret' # ret /\ ret'.op = "patch_user"

\* The user a served patch_user call names, in the store before it.
Patched == {d \in users : d.uuid = ret'.uuid}

\* The users besides d that hold the email of the patch.
EmailTaken(d) ==
    {o \in users \ {d} : "email" \in DOMAIN ret'.patch /\ o.email = ret'.patch["email"]}

\* The record new is the record old with the supplied fields set to the
\* supplied values, updated_at set to the time of the call, and every
\* other field as it was.
PatchedFrom(old, new) ==
    /\ \A f \in DOMAIN ret'.patch : new[f] = ret'.patch[f]
    /\ \A f \in (DOMAIN old \ DOMAIN ret'.patch) \ {"updated_at"} : new[f] = old[f]
    /\ new.updated_at = now

\* C7 as stated: patch_user on an existing user, whatever subset of email,
\* name and is_active it supplies, sets the supplied fields, leaves the
\* other fields unchanged, refreshes updated_at and changes no other user.
C7_EverySubsetRefreshes ==
    [][PatchStep =>
       \A old \in Patched :
             \E new \in users' :
                /\ users' = (users \ {old}) \cup {new}
                /\ PatchedFrom(old, new)]_vars

\* C7: patch_user on an existing user with a non-empty subset of email,
\* name and is_active whose email no other user holds sets the supplied
\* fields, leaves the other fields unchanged, refreshes updated_at,
\* changes no other user and returns the new record; with the empty
\* subset it returns the record and changes nothing, updated_at included;
\* with an email another user holds it fails with DuplicateKeyError and
\* changes nothing.
C7_PatchFrame ==
    [][PatchStep =>
       \A old \in Patched :
             IF ret'.patch = EmptyDict
             THEN users' = users /\ ret'.err = "ok" /\ ret'.result = {old}
             ELSE IF EmailTaken(old) # {}
                  THEN users' = users /\ ret'.err = "DuplicateKeyError"
                  ELSE \E new \in users' :
                          /\ users' = (users \ {old}) \cup {new}
                          /\ PatchedFrom(old, new)
                          /\ ret'.err = "ok" /\ ret'.result = {new}]_vars

\* C7's case: a patch of the name alone has been applied to the inactive
\* user, after the clock has moved on from its creation.
C7_Witness ==
    /\ ret.op = "patch_user" /\ ret.err = "ok"
    /\ DOMAIN ret.patch = {"name"}
    /\ \E d \in ret.result :
          /\ d \in users
          /\ d.name = Name(2) /\ ~d.is_active
          /\ d.updated_at = now /\ d.created_at < now

----------------------------------------------------------------------------
(* Listings called with a cursor of the caller's choosing *)

\* A request for a page of the users listing, served to its end (one find).
CallGetUsersWithFilters(firsts, afters, filters) ==
    /\ \E first \in firsts, after \in afters, fp \in filters :
          ret' = [op |-> "get_users_with_filters", first |-> first, after |-> after,
                  fp |-> fp, page |-> GetUsersWithFilters(first, after, fp)]
    /\ UNCHANGED <<users, friendships, nextOid, nextUuid4, now, tasks, sess>>

\* A request for a page of a user's friends, served to its end (one
\* aggregate).
CallGetFriends(uuids, limits, afters) ==
    /\ \E user_uuid \in uuids, limit \in limits, after \in afters :
          ret' = [op |-> "get_friends", uuid |-> user_uuid, limit |-> limit,
                  after |-> after, page |-> GetFriends(user_uuid, limit, after)]
    /\ UNCHANGED <<users, friendships, nextOid, nextUuid4, now, tasks, sess>>

\* The cursors a caller may send: none, the empty text, a text too short
\* for an ObjectId, a text with a character that is no hexadecimal digit,
\* the text of the first user's _id and that of the first friendship's.
CallerCursors ==
    {None, <<>>, <<0>>, [i \in 1..OidHexLen |-> 16],
     OidStr(2), OidStr(2 * (2 + MaxOthers) + 1)}

NextCursor ==
    \/ CallGetUsersWithFilters({Int1(2)}, CallerCursors, {<<>>})
    \/ CallGetFriends(HubUuids, {2}, CallerCursors)

SpecCursor == InitMutual /\ [][NextCursor]_vars

\* C11: a call of paginate, or of get_friends, with a cursor that is
\* present and is not the text of a store identifier, the empty text
\* included, is rejected as an invalid cursor and returns no page.
C11_InvalidCursorRejected ==
    (/\ ret.op \in {"get_users_with_filters", "get_friends"}
     /\ ret.after # None /\ ~OidValid(ret.after))
    => ret.page.err = "InvalidId"

----------------------------------------------------------------------------
(* A client following the pages of a user's friends *)

\* The client chooses the user and the page size.
StartFriendsListing(uuids, firsts) ==
    /\ sess.state = "none"
    /\ \E user_uuid \in uuids, first \in firsts :
          sess' = [NoSess EXCEPT !.state = "friends", !.uuid = user_uuid, !.first = first]
    /\ UNCHANGED <<users, friendships, nextOid, nextUuid4, now, tasks, ret>>

\* The edge cursor User.friends issues for a friend: str(friend['_id']),
\* friend being the user document the pipeline put in the friendship's
\* place.
FriendEdgeCursor(friend) == OidStr(friend._id)

\* One call of User.friends: get_friends with no cursor at first and then
\* with page_info.end_cursor of the previous page, the cursor of its last
\* edge.  The listing ends with a page that reports no next page.
FetchFriendsPage ==
    /\ sess.state = "friends"
    /\ LET r == GetFriends(sess.uuid, IntOf(sess.first), sess.after)
           n == Len(r.friends)
       IN sess' = [sess EXCEPT
                      !.last = r, !.n = sess.n + 1,
                      !.seen = sess.seen \o r.friends,
                      !.after = IF n > 0 THEN FriendEdgeCursor(r.friends[n]) ELSE None,
                      !.state = IF r.has_next THEN "friends" ELSE "end"]
    /\ UNCHANGED <<users, friendships, nextOid, nextUuid4, now, tasks, ret>>

NextFriendPages ==
    \/ StartFriendsListing(HubUuids, {Int1(1), Int1(2)})
    \/ sess.n < MaxFetches /\ FetchFriendsPage

SpecFriendPages == InitMutual /\ [][NextFriendPages]_vars

\* C12: following the pages of a user's friends by the cursor of the last
\* item of the previous page returns no friend twice, reports a next page
\* exactly while friends remain to be returned, and has returned every
\* friend when it ends.
C12_FriendsPagesConsistent ==
    sess.state \in {"friends", "end"}
    => LET got == {sess.seen[i].uuid : i \in 1..Len(sess.seen)}
       IN /\ \A i, j \in 1..Len(sess.seen) : sess.seen[i] = sess.seen[j] => i = j
          /\ got \subseteq FriendUuids(sess.uuid)
          /\ sess.n > 0 => (sess.last.has_next <=> got # FriendUuids(sess.uuid))

----------------------------------------------------------------------------
(* Claims about friend requests between seeded users *)

\* C13 as stated: a friend request of a user to itself fails with "Cannot
\* friend yourself" whether or not the user exists, and no friendship
\* record has the same user on both sides.
C13_SelfAlwaysSelfFriendship ==
    /\ \A f \in friendships : f.user1_uuid # f.user2_uuid
    /\ \A t \in Tasks :
          (FriendDone(t) /\ tasks[t].a = tasks[t].b)
          => tasks[t].err = "ValueError: Cannot friend yourself"

\* C13: a friend request of a user to itself fails, with "Cannot friend
\* yourself" when both lookups found the user and with "One or both users
\* not found" when one did not, and no friendship record has the same
\* user on both sides.
C13_SelfRefused ==
    /\ \A f \in friendships : f.user1_uuid # f.user2_uuid
    /\ \A t \in Tasks :
          (FriendDone(t) /\ tasks[t].a = tasks[t].b)
          => tasks[t].err = IF tasks[t].from_found /\ tasks[t].to_found
                            THEN "ValueError: Cannot friend yourself"
                            ELSE "ValueError: One or both users not found"

\* C13's case: a request of an existing user to itself has been refused.
C13_Witness ==
    \E t \in Tasks :
       /\ FriendDone(t) /\ tasks[t].a = tasks[t].b
       /\ tasks[t].err = "ValueError: Cannot friend yourself"
       /\ \E d \in users : d.uuid = tasks[t].a

----------------------------------------------------------------------------
(* Friend requests, removals and deletions of two seeded users *)

PairUsers == {1, 2}

PairUuids == {OidStr(2 * i - 1) : i \in PairUsers}

InitRemove ==
    /\ users = {SeedUser(i, TRUE) : i \in PairUsers}
    /\ nextOid = 2 * Cardinality(PairUsers) + 1
    /\ friendships = {}
    /\ nextUuid4 = 1
    /\ now = 0
    /\ tasks = [t \in Tasks |-> IdleFrame]
    /\ sess = NoSess
    /\ ret = NoRet

NextRemove ==
    \/ \E t \in Tasks :
          /\ FriendBudget(MaxFriendships)
          /\ CallSendFriendRequest(t, PairUuids)
    \/ \E t \in Tasks : FindFromUser(t)
    \/ \E t \in Tasks : FindToUser(t)
    \/ \E t \in Tasks : FindExistingFriendship(t)
    \/ \E t \in Tasks : InsertFriendship(t)
    \/ \E t \in Tasks : CallRemoveFriend(t, PairUuids)
    \/ \E t \in Tasks : RemoveFindUser(t)
    \/ \E t \in Tasks : RemoveFindFriend(t)
    \/ \E t \in Tasks : DeleteFriendship(t)
    \/ \E t \in Tasks : CallDeleteUser(t, PairUuids)
    \/ \E t \in Tasks : DeleteOneUser(t)
    \/ \E t \in Tasks : Return(t)

SpecRemove == InitRemove /\ [][NextRemove]_vars

\* The user with uuid x is missing.
Missing(x) == \A d \in users : d.uuid # x

\* Task t takes its step from pc.
StepsAt(t, ops, pc) ==
    /\ tasks[t].op \in ops /\ tasks[t].pc = pc
    /\ tasks'[t] # tasks[t]

\* C14: a friend request and a removal each fail with "One or both users
\* not found" whenever the first or the second user is missing when the
\* call looks it up, and leave the friendships collection unchanged, a
\* removal also when a record of the pair exists.
C14_MissingUserRefused ==
    [][\A t \in Tasks :
          /\ (StepsAt(t, {"send_friend_request"}, "find_from")
               \/ StepsAt(t, {"remove_friend"}, "find_user"))
             => /\ tasks'[t].from_found = ~Missing(tasks[t].a)
                /\ tasks'[t].pc \in {"find_to", "find_friend"}
                /\ friendships' = friendships
          /\ (/\ \/ StepsAt(t, {"send_friend_request"}, "find_to")
                  \/ StepsAt(t, {"remove_friend"}, "find_friend")
              /\ ~tasks[t].from_found \/ Missing(tasks[t].b))
             => /\ tasks'[t].pc = "done"
                /\ tasks'[t].err = "ValueError: One or both users not found"
                /\ friendships' = friendships]_vars

\* C14's case: a removal has failed with "One or both users not found"
\* while a friendship record of its pair exists.
C14_Witness ==
    \E t \in Tasks :
       /\ tasks[t].op = "remove_friend" /\ tasks[t].pc = "done"
       /\ tasks[t].err = "ValueError: One or both users not found"
       /\ PairRecords(tasks[t].a, tasks[t].b) # {}

\* The uuids of the users get_friends returns for user x on a first page
\* of the default size.
FriendsListed(x) ==
    LET r == GetFriends(x, DefaultFriendsLimit, None)
    IN {r.friends[i].uuid : i \in 1..Len(r.friends)}

\* C15: a removal between two existing users deletes the friendship
\* record of the pair in whichever order it is stored, returns true
\* exactly when there was one, leaves the other friendship records
\* unchanged, and afterwards the two are not friends: the friendship
\* status says so and neither is among the other's friends.
C15_RemoveUnfriends ==
    [][\A t \in Tasks :
          StepsAt(t, {"remove_friend"}, "delete_friendship")
          => LET a == tasks[t].a
                 b == tasks[t].b
             IN /\ tasks'[t].pc = "done" /\ tasks'[t].err = "ok"
                /\ tasks'[t].res = (PairRecords(a, b) # {})
                /\ friendships' = friendships \ PairRecords(a, b)
                /\ ~(GetFriendshipStatus(a, b).are_friends)'
                /\ (b \notin FriendsListed(a))' /\ (a \notin FriendsListed(b))']_vars

----------------------------------------------------------------------------
(* Referred users created while the referrer is deleted *)

\* One seeded user, whose referral code callers pass on.
Referrers == {1}

InitReferral ==
    /\ users = {SeedUser(i, TRUE) : i \in Referrers}
    /\ nextOid = 2 * Cardinality(Referrers) + 1
    /\ friendships = {}
    /\ nextUuid4 = 1
    /\ now = 0
    /\ tasks = [t \in Tasks |-> IdleFrame]
    /\ sess = NoSess
    /\ ret = NoRet

\* Callers supply fresh e-mail addresses and no referral code, the code of
\* a seeded user, or a code that no user has.
NextReferral ==
    \/ \E t \in Tasks :
          /\ CreateBudget(MaxCreates)
          /\ CallCreateUser(t, {Email(CallNo(t))}, {Name(1)}, {Password(1)}, {{}},
                            {None, Code(0)} \cup {Code(i) : i \in Referrers})
    \/ \E t \in Tasks : EnsureUniqueReferralCode(t, {Code(CallNo(t))})
    \/ \E t \in Tasks : FindReferrer(t)
    \/ \E t \in Tasks : InsertUser(t)
    \/ \E t \in Tasks : CallDeleteUser(t, {OidStr(2 * i - 1) : i \in Referrers})
    \/ \E t \in Tasks : DeleteOneUser(t)
    \/ \E t \in Tasks : Return(t)

SpecReferral == InitReferral /\ [][NextReferral]_vars

\* The users that own the referral code the call of task t was given.
Owners(t) == {d \in users : d.referral_code = tasks[t].refcode}

\* C16: create_user with a referral code sets referred_by to the uuid of
\* the user owning the code when there is one and leaves it unset, without
\* an error, when there is none; and the user with that uuid exists when
\* the new user is inserted, whatever delete_user calls run concurrently.
C16_ReferrerExistsAtInsert ==
    [][\A t \in Tasks :
          /\ StepsAt(t, {"create_user"}, "referrer")
             => /\ tasks'[t].pc = "insert"
                /\ \A d \in Owners(t) : tasks'[t].referred_by = d.uuid
                /\ Owners(t) = {} => tasks'[t].referred_by = None
          /\ StepsAt(t, {"create_user"}, "insert")
             => /\ tasks'[t].err = "ok"
                /\ UserDoc(tasks[t]) \in users'
                /\ tasks[t].referred_by # None => ~Missing(tasks[t].referred_by)]_vars

----------------------------------------------------------------------------
(* Concurrent create_user calls, each served as long as it can proceed *)

\* The event loop resumes every call whose store operation has completed.
SpecCreateFair ==
    /\ SpecCreate
    /\ \A t \in Tasks :
          WF_vars(\/ EnsureUniqueReferralCode(t, Codes)
                  \/ FindReferrer(t)
                  \/ InsertUser(t)
                  \/ Return(t))

\* C17: referral-code generation always terminates: a call that is
\* generating its code eventually leaves the generation, with a code no
\* stored user has or with a failure.
C17_GenerationTerminates ==
    \A t \in Tasks :
       (tasks[t].pc = "ensure_code") ~> (tasks[t].pc # "ensure_code")

----------------------------------------------------------------------------
(* Full and partial updates of seeded users *)

\* UserBase.model_dump(): every field of the model, is_active by its
\* default when the caller did not set it.
ModelDump(email, name, is_active) ==
    [f \in {"email", "name", "is_active"} |->
        CASE f = "email" -> email
          [] f = "name"  -> name
          [] OTHER       -> is_active]

\* UserService.update_user, served to its end: one update_one, which the
\* unique indexes admit or refuse, and, when it modified the document, one
\* find_one of it; None is returned when nothing was modified.
UpdateUser(uuids, emails, names, actives) ==
    /\ \E uuid \in uuids, email \in emails, name \in names, is_active \in actives :
          LET user_dict == DictSet(ModelDump(email, name, is_active), "updated_at", now)
              found == FindOne(users, DictSet(EmptyDict, "uuid", Val(uuid)))
              Returned(err, result) ==
                  [op |-> "update_user", uuid |-> uuid, patch |-> user_dict,
                   err |-> err, result |-> result]
          IN IF found = {}
             THEN /\ users' = users
                  /\ ret' = Returned("ok", {})
             ELSE LET old == CHOOSE d \in found : TRUE
                      new == SetFields(old, user_dict)
                  IN IF UsersIndexAdmits(users \ {old}, new)
                     THEN /\ users' = (users \ {old}) \cup {new}
                          /\ ret' = Returned("ok", IF new # old THEN {new} ELSE {})
                     ELSE /\ users' = users
                          /\ ret' = Returned("DuplicateKeyError", {})
    /\ UNCHANGED <<friendships, nextOid, nextUuid4, now, tasks, sess>>

NextUpdate ==
    \/ PatchUser(PatchUuids, {{}, {Email(3)}}, {{}, {Name(2)}}, {{}})
    \/ UpdateUser(PatchUuids, {Email(1), Email(3)}, {Name(1)}, {TRUE, FALSE})
    \/ Tick

SpecUpdate == InitUsers /\ [][NextUpdate]_vars

\* C18: through every patch_user and update_user call, on whichever user,
\* each user record keeps its uuid, its referral_code and its created_at
\* (and no record appears or disappears).
C18_IdentityImmutable ==
    [][/\ \A d \in users : \E e \in users' :
             /\ e._id = d._id /\ e.uuid = d.uuid
             /\ e.referral_code = d.referral_code /\ e.created_at = d.created_at
       /\ Cardinality(users') = Cardinality(users)]_vars

\* C18's case: an update_user call has replaced email and is_active of a
\* user after the clock moved on from its creation.
C18_Witness ==
    /\ ret.op = "update_user" /\ ret.err = "ok"
    /\ \E d \in ret.result :
          /\ d \in users
          /\ d.email = Email(3) /\ ~d.is_active
          /\ d.created_at < d.updated_at

----------------------------------------------------------------------------
(* Claims about delete_user *)

\* C19: delete_user removes exactly the user record with the uuid given,
\* returns true exactly when there was one, and leaves every other user
\* record and the whole friendships collection unchanged.
C19_DeleteFrame ==
    [][\A t \in Tasks :
          StepsAt(t, {"delete_user"}, "delete_one")
          => /\ users' = {d \in users : d.uuid # tasks[t].a}
             /\ friendships' = friendships
             /\ tasks'[t].pc = "done" /\ tasks'[t].err = "ok"
             /\ tasks'[t].res = ~Missing(tasks[t].a)]_vars

\* C19's case: a delete_user call has returned true and a friendship
\* record naming the deleted user is still stored.
C19_Witness ==
    \E t \in Tasks :
       /\ tasks[t].op = "delete_user" /\ tasks[t].pc = "done" /\ tasks[t].res
       /\ Missing(tasks[t].a)
       /\ \E f \in friendships : tasks[t].a \in {f.user1_uuid, f.user2_uuid}

----------------------------------------------------------------------------
(* Claims about the record create_user returns *)

\* A user record holds no password: it has no such key and none of its
\* texts is the password pw.
NoPasswordIn(d, pw) ==
    /\ "password" \notin DOMAIN d
    /\ \A g \in DOMAIN d \cap {"email", "name", "referral_code", "referred_by", "uuid"} :
          d[g] # pw

\* C20: the password given to create_user is in no record of the users
\* collection nor in the record a successful call returns, and that
\* record carries uuid, referral_code, created_at and updated_at, with
\* is_active true when the caller did not supply it.
C20_NoPasswordReturned ==
    /\ \A d \in users : NoPasswordIn(d, Password(1))
    /\ \A t \in Tasks :
          (CreateDone(t) /\ tasks[t].err = "ok")
          => LET user_dict == UserDoc(tasks[t])
             IN /\ NoPasswordIn(user_dict, tasks[t].password)
                /\ {"uuid", "referral_code", "created_at", "updated_at"}
                      \subseteq DOMAIN user_dict
                /\ user_dict.uuid # None /\ user_dict.referral_code # None
                /\ tasks[t].is_active = {} => user_dict.is_active = TRUE

\* C20's case: a create_user call given a password and no is_active has
\* returned the user it stored.
C20_Witness ==
    \E t \in Tasks :
       /\ CreateDone(t) /\ tasks[t].err = "ok"
       /\ tasks[t].password = Password(1) /\ tasks[t].is_active = {}
       /\ UserDoc(tasks[t]) \in users

----------------------------------------------------------------------------
(* Users looked up by uuid while users are created and deleted *)

\* UserService.get_user_by_uuid, called.
CallGetUserByUuid(t, uuids) ==
    /\ Free(t)
    /\ \E x \in uuids :
          tasks' = [tasks EXCEPT ![t] =
                       [IdleFrame EXCEPT !.op = "get_user_by_uuid", !.pc = "find_one",
                                         !.a = x]]
    /\ UNCHANGED <<users, friendships, nextOid, nextUuid4, now, sess, ret>>

\* FindUserByUuid with the first user of the collection for an answer.
FindUserByUuidAny(t) ==
    /\ tasks[t].op = "get_user_by_uuid" /\ tasks[t].pc = "find_one"
    /\ tasks' = [tasks EXCEPT ![t].pc = "done", ![t].err = "ok",
                              ![t].result = FindOne(users, EmptyDict)]
    /\ UNCHANGED <<users, friendships, nextOid, nextUuid4, now, sess, ret>>

\* db.users.find_one({"uuid": uuid}): the document, or None.
FindUserByUuid(t) ==
    /\ tasks[t].op = "get_user_by_uuid" /\ tasks[t].pc = "find_one"
    /\ tasks' = [tasks EXCEPT ![t].pc = "done", ![t].err = "ok",
                              ![t].result = FindOne(users, DictSet(EmptyDict, "uuid",
                                                                   Val(tasks[t].a)))]
    /\ UNCHANGED <<users, friendships, nextOid, nextUuid4, now, sess, ret>>

NextLookup ==
    \/ \E t \in Tasks :
          /\ CreateBudget(MaxCreates)
          /\ CallCreateUser(t, {Email(CallNo(t))}, {Name(1)}, {Password(1)}, {{}}, {None})
    \/ \E t \in Tasks : EnsureUniqueReferralCode(t, {Code(CallNo(t))})
    \/ \E t \in Tasks : InsertUser(t)
    \/ \E t \in Tasks : CallDeleteUser(t, {OidStr(2 * i - 1) : i \in 1..(MaxCreates + 1)})
    \/ \E t \in Tasks : DeleteOneUser(t)
    \/ \E t \in Tasks : CallGetUserByUuid(t, {OidStr(2 * i - 1) : i \in 1..(MaxCreates + 1)})
    \/ \E t \in Tasks : FindUserByUuid(t)
    \/ \E t \in Tasks : Return(t)

SpecLookup == InitReferral /\ [][NextLookup]_vars

\* C21: get_user_by_uuid returns the stored record of the uuid, which has
\* the uuid, email and name that create_user returned for it, returns
\* none for a uuid that no stored user has, and never changes the store.
C21_LookupReturnsCreated ==
    [][\A u \in Tasks :
          StepsAt(u, {"get_user_by_uuid"}, "find_one")
          => /\ users' = users /\ friendships' = friendships
             /\ tasks'[u].pc = "done" /\ tasks'[u].err = "ok"
             /\ tasks'[u].result = {d \in users : d.uuid = tasks[u].a}
             /\ \A t \in Tasks :
                   (/\ CreateDone(t) /\ tasks[t].err = "ok"
                    /\ tasks[t].uuid = tasks[u].a /\ ~Missing(tasks[u].a))
                   => \E d \in tasks'[u].result :
                         /\ d.uuid = tasks[t].uuid
                         /\ d.email = tasks[t].email /\ d.name = tasks[t].name]_vars

\* C21's case: the user a create_user call returned has been looked up by
\* its uuid while the creating call still holds its answer.
C21_Witness ==
    \E t, u \in Tasks :
       /\ CreateDone(t) /\ tasks[t].err = "ok"
       /\ tasks[u].op = "get_user_by_uuid" /\ tasks[u].pc = "done"
       /\ tasks[u].a = tasks[t].uuid
       /\ UserDoc(tasks[t]) \in tasks[u].result

----------------------------------------------------------------------------
(* Claims about the compiled filter *)

\* C22: the query compiled from a filter has a condition for exactly the
\* predicates whose value is not None, none of them an equals-None
\* condition; a filter that is empty or holds only None values compiles
\* to the empty query, and the listing followed to its end has then
\* returned every record of the collection.
C22_NoneOmitted ==
    sess.state # "none"
    => LET fp == sess.fp
           q == CompileFilter(fp, UserFieldMappings, EmptyDict)
           given == {i \in 1..Len(fp) : fp[i][2].t # "none"}
       IN /\ \A f \in DOMAIN q : q[f].t # "none"
          /\ DOMAIN q = {MapGet(UserFieldMappings, fp[i][1]) : i \in given}
          /\ given = {}
             => /\ q = EmptyDict
                /\ \A i \in 1..Len(sess.seen) : sess.seen[i] \in users
                /\ sess.state = "end" => sess.seen = SortById(users)

\* C22's case: a listing whose filter has is_active None has been followed
\* to its end over a collection with active and inactive users.
C22_Witness ==
    /\ sess.state = "end"
    /\ sess.fp = << <<"is_active", NoneV>> >>
    /\ sess.n > 2
    /\ \E i, j \in 1..Len(sess.seen) : sess.seen[i].is_active /\ ~sess.seen[j].is_active

----------------------------------------------------------------------------
(* get_users_with_filters over users that differ in created_at, in
   referred_by and in their friendships *)

\* The user with number i, created at time i by create_user, referred by
\* user 1 or by nobody.
FilterUser(i, referred) ==
    UserDoc([IdleFrame EXCEPT !.email = Email(i), !.name = Name(i), !.is_active = {TRUE},
                              !.code = Code(i), !.uuid = OidStr(2 * i - 1), !.oid = 2 * i,
                              !.ts = i,
                              !.referred_by = IF referred THEN OidStr(1) ELSE None])

\* The friendship of user 1 and user o as send_friend_request stores it,
\* requested by user 1 or by user o.
FilterFriendship(o, from_first) ==
    FriendshipDoc([IdleFrame EXCEPT !.a = IF from_first THEN OidStr(1) ELSE OidStr(2 * o - 1),
                                    !.b = IF from_first THEN OidStr(2 * o - 1) ELSE OidStr(1),
                                    !.uuid = Uuid4(o), !.ts = MaxFilterUsers + o,
                                    !.oid = 2 * MaxFilterUsers + o])

InitFilter ==
    /\ \E referred \in SUBSET (2..MaxFilterUsers) :
          users = {FilterUser(i, i \in referred) : i \in 1..MaxFilterUsers}
    /\ \E friends \in SUBSET (2..MaxFilterUsers) :
          friendships = {FilterFriendship(o, o % 2 = 0) : o \in friends}
    /\ nextOid = 3 * MaxFilterUsers + 1
    /\ nextUuid4 = MaxFilterUsers + 1
    /\ now = 2 * MaxFilterUsers + 1
    /\ tasks = [t \in Tasks |-> IdleFrame]
    /\ sess = NoSess
    /\ ret = NoRet

NextFilter ==
    CallGetUsersWithFilters(
       {NoInt, Int1(2)}, {None},
       {<<>>,
        << <<"nickname", Val(Name(1))>> >>,
        << <<"referred_by", Val(OidStr(1))>> >>,
        << <<"created_after", Val(1)>> >>,
        << <<"created_before", Val(3)>> >>,
        << <<"created_after", Val(1)>>, <<"created_before", Val(3)>> >>,
        << <<"created_after", Val(2)>>, <<"created_before", NoneV>> >>})

SpecFilter == InitFilter /\ [][NextFilter]_vars

\* C23: get_users_with_filters called with a filter that gives a value to
\* a field name outside the paginator's field_mappings fails with
\* InvalidFilter.
C23_UnknownFieldRejected ==
    ret.op = "get_users_with_filters"
    => \A i \in 1..Len(ret.fp) :
          ret.fp[i][1] \notin DOMAIN UserFieldMappings /\ ret.fp[i][2].t # "none"
          => ret.page.err = "InvalidFilter"

\* The value a filter gives to key, or default when it gives none.
FilterBound(fp, key, default) ==
    IF \E i \in 1..Len(fp) : fp[i][1] = key /\ fp[i][2].t = "val"
    THEN (CHOOSE c \in {fp[i][2] : i \in {j \in 1..Len(fp) : fp[j][1] = key}} : TRUE).v
    ELSE default

\* C24: get_users_with_filters called without cursor, with the default page
\* size and with created_after and/or created_before returns every user
\* created strictly between the bounds given, and no user created outside
\* them.
C24_RangeBounds ==
    /\ ret.op = "get_users_with_filters"
    /\ ret.first = NoInt
    /\ \A i \in 1..Len(ret.fp) : ret.fp[i][1] \in {"created_after", "created_before"}
    => LET lo == FilterBound(ret.fp, "created_after", 0)
           hi == FilterBound(ret.fp, "created_before", 2 * MaxFilterUsers)
           got == {ret.page.items[i] : i \in 1..Len(ret.page.items)}
       IN /\ ret.page.err = "ok"
          /\ \A d \in users : lo < d.created_at /\ d.created_at < hi => d \in got
          /\ \A d \in got : lo <= d.created_at /\ d.created_at <= hi

----------------------------------------------------------------------------
(* The list endpoints that report a total: REST read_users and the
   GraphQL users connection *)

FilterHas(fp, key) == \E i \in 1..Len(fp) : fp[i][1] = key

FilterGet(fp, key) == fp[CHOOSE i \in 1..Len(fp) : fp[i][1] = key][2]

\* The query get_filtered_users_count builds from filter_params.
CountQuery(fp) ==
    LET q1 == IF FilterHas(fp, "name_contains")
              THEN DictSet(EmptyDict, "name", OpRegex(FilterGet(fp, "name_contains").v))
              ELSE EmptyDict
        q2 == IF FilterHas(fp, "email_contains")
              THEN DictSet(q1, "email", OpRegex(FilterGet(fp, "email_contains").v))
              ELSE q1
        q3 == IF FilterHas(fp, "is_active")
              THEN DictSet(q2, "is_active", FilterGet(fp, "is_active"))
              ELSE q2
        q4 == IF FilterHas(fp, "created_after")
              THEN DictSet(q3, "created_at", OpGt(FilterGet(fp, "created_after").v))
              ELSE q3
        q5 == IF FilterHas(fp, "created_before")
              THEN IF "created_at" \in DOMAIN q4
                   THEN DictSet(q4, "created_at",
                                OpGtLt(q4["created_at"].v, FilterGet(fp, "created_before").v))
                   ELSE DictSet(q4, "created_at", OpLt(FilterGet(fp, "created_before").v))
              ELSE q4
    IN IF FilterHas(fp, "referred_by")
       THEN DictSet(q5, "referred_by", FilterGet(fp, "referred_by"))
       ELSE q5

\* get_filtered_users_count: the count, or 0 when anything raises;
\* count_ok is whether the store answers count_documents.
GetFilteredUsersCount(fp, count_ok) ==
    IF count_ok THEN Cardinality(Find(users, CountQuery(fp))) ELSE 0

\* {k: v for k, v in filter.__dict__.items() if v is not None}
DropNone(filter) == SelectSeq(filter, LAMBDA e : e[2].t # "none")

\* The UserConnection for a page of users.
UserConnection(page, after, total_count) ==
    LET edges == [i \in 1..Len(page.items) |->
                     [cursor |-> OidStr(page.items[i]._id),
                      node |-> DictDel(page.items[i], "_id")]]
    IN [err |-> "ok", edges |-> edges,
        has_next_page |-> page.has_next, has_previous_page |-> Truthy(after),
        start_cursor |-> IF edges # <<>> THEN edges[1].cursor ELSE None,
        end_cursor |-> IF edges # <<>> THEN edges[Len(edges)].cursor ELSE None,
        total_count |-> total_count]

\* A call that raised err.
Raised(err) ==
    [err |-> err, edges |-> <<>>, has_next_page |-> FALSE, has_previous_page |-> FALSE,
     start_cursor |-> None, end_cursor |-> None, total_count |-> 0]

\* resolve_user_connection(first, after, filter) without order_by.
ResolveUserConnection(firsts, afters, filters, counts) ==
    /\ \E first \in firsts, after \in afters, filter \in filters, count_ok \in counts :
          LET filter_params == DropNone(filter)
              page == GetUsersWithFilters(first, after, filter_params)
              total_count == GetFilteredUsersCount(filter_params, count_ok)
          IN ret' = [op |-> "resolve_user_connection", first |-> first, after |-> after,
                     filter |-> filter, count_ok |-> count_ok,
                     out |-> IF page.err # "ok" THEN Raised(page.err)
                             ELSE UserConnection(page, after, total_count)]
    /\ UNCHANGED <<users, friendships, nextOid, nextUuid4, now, tasks, sess>>

\* An HTTP response of read_users.
HttpError(status) ==
    [status |-> status, items |-> <<>>, cursor |-> None, has_next_page |-> FALSE, total |-> 0]

\* read_users(first, after, active): the arguments of PaginatedUsers are
\* evaluated, the count last, and the model is validated; cursor is
\* declared Optional[str] and is given the ObjectId users[-1]["_id"] when the
\* page has items. Every exception becomes a 500.
ReadUsers(firsts, afters, actives, counts) ==
    /\ \E first \in firsts, after \in afters, active \in actives, count_ok \in counts :
          LET filter_params == IF active # {} THEN << <<"is_active", Val(IntOf(active))>> >>
                               ELSE <<>>
              page == GetUsersWithFilters(first, after, filter_params)
          IN ret' = [op |-> "read_users", first |-> first, after |-> after,
                     active |-> active, count_ok |-> count_ok,
                     out |-> IF page.err # "ok" THEN HttpError(500)
                             ELSE IF ~count_ok THEN HttpError(500)
                             ELSE IF page.items # <<>> THEN HttpError(500)
                             ELSE [status |-> 200, items |-> <<>>, cursor |-> None,
                                   has_next_page |-> page.has_next,
                                   total |-> Cardinality(users)]]
    /\ UNCHANGED <<users, friendships, nextOid, nextUuid4, now, tasks, sess>>

NextConnection ==
    \/ ResolveUserConnection(
          {NoInt, Int1(2)}, {None, OidStr(2 * MaxFilterUsers)},
          {<<>>,
           << <<"is_active", Val(TRUE)>> >>,
           << <<"name_contains", Val(Name(2))>>, <<"is_active", NoneV>> >>,
           << <<"created_after", Val(1)>> >>,
           << <<"created_after", Val(1)>>, <<"created_before", Val(3)>> >>,
           << <<"friend_of", Val(OidStr(1))>> >>,
           << <<"referred_by", Val(OidStr(1))>> >>},
          BOOLEAN)
    \/ ReadUsers({Int1(10)}, {None, OidStr(2 * MaxFilterUsers)}, {{}, {TRUE}}, BOOLEAN)

SpecConnection == InitFilter /\ [][NextConnection]_vars

\* C25: when the count query fails and the page query succeeds, read_users
\* answers 200 and resolve_user_connection returns a connection, each with
\* the page's items and has_next flag and with a total of 0.
C25_BestEffortCount ==
    ret.op \in {"read_users", "resolve_user_connection"} /\ ~ret.count_ok
    => /\ ret.op = "resolve_user_connection"
          => LET page == GetUsersWithFilters(ret.first, ret.after, DropNone(ret.filter))
             IN /\ ret.out.err = "ok"
                /\ [i \in 1..Len(ret.out.edges) |-> ret.out.edges[i].node]
                      = [i \in 1..Len(page.items) |-> DictDel(page.items[i], "_id")]
                /\ ret.out.has_next_page = page.has_next
                /\ ret.out.total_count = 0
       /\ ret.op = "read_users"
          => LET page == GetUsersWithFilters(ret.first, ret.after,
                            IF ret.active # {}
                            THEN << <<"is_active", Val(IntOf(ret.active))>> >>
                            ELSE <<>>)
             IN /\ ret.out.status = 200
                /\ Len(ret.out.items) = Len(page.items)
                /\ ret.out.has_next_page = page.has_next
                /\ ret.out.total = 0

\* C28: the first page, of default size, of the users connection with
\* filter friend_of = U holds exactly the users that have a friendship
\* record with U in either stored order, and with filter referred_by = U
\* exactly the users whose referred_by is U.
C28_FriendOfReferredBy ==
    ret.op = "resolve_user_connection" /\ ret.first = NoInt /\ ret.after = None
    => \A u \in users :
          LET got == {ret.out.edges[i].node.uuid : i \in 1..Len(ret.out.edges)}
          IN /\ ret.filter = << <<"friend_of", Val(u.uuid)>> >>
                => /\ ret.out.err = "ok"
                   /\ got = {d.uuid : d \in {x \in users : \E f \in friendships :
                                {f.user1_uuid, f.user2_uuid} = {u.uuid, x.uuid}}}
             /\ ret.filter = << <<"referred_by", Val(u.uuid)>> >>
                => /\ ret.out.err = "ok"
                   /\ got = {d.uuid : d \in {x \in users : x.referred_by = u.uuid}}

\* The records get_users_with_filters returns from the cursor after on,
\* following each page's last cursor while has_next_page holds.
RECURSIVE Enumerated(_, _, _, _)
Enumerated(first, after, fp, fuel) ==
    LET page == GetUsersWithFilters(first, after, fp)
        n == Len(page.items)
    IN IF fuel = 0 \/ page.err # "ok" \/ n = 0 THEN <<>>
       ELSE page.items \o (IF page.has_next
                           THEN Enumerated(first, EdgeCursor(page.items[n]), fp, fuel - 1)
                           ELSE <<>>)

\* C29: when resolve_user_connection returns and its count query did not
\* fail, total_count is the number of records the page query enumerates
\* for the same filter from the first page to the last.
C29_CountEqualsEnumerated ==
    ret.op = "resolve_user_connection" /\ ret.count_ok /\ ret.out.err = "ok"
    => ret.out.total_count
          = Len(Enumerated(ret.first, None, DropNone(ret.filter), MaxFilterUsers + 1))

----------------------------------------------------------------------------
(* paginate with an explicit order_by *)

\* order_by: None ({}) or a dict with the keys field and direction.
OrderBy(field, direction) == {[field |-> field, direction |-> direction]}

\* sort([(field, direction)]): the documents in the order of the values of
\* one field holding numbers, ascending for direction 1 and descending for
\* -1; documents with equal values come in any order.
SortBy(S, field, direction) ==
    {s \in {p \in [1..Cardinality(S) -> S] :
                \A i, j \in 1..Cardinality(S) : p[i] = p[j] => i = j} :
        \A i \in 1..(Len(s) - 1) :
           IF direction = 1 THEN s[i][field] <= s[i + 1][field]
           ELSE s[i][field] >= s[i + 1][field]}

\* paginate(first, after, filter_params, order_by): the pages the store may
\* answer with.
PaginateOrdered(coll, mappings, first, after, fp, order_by) ==
    IF Truthy(after) /\ ~OidValid(after)
    THEN {[err |-> "InvalidId", items |-> <<>>, has_next |-> FALSE]}
    ELSE LET query == PaginateQuery(after, fp, mappings)
             o == CHOOSE x \in order_by : TRUE
             field == IF order_by # {} THEN MapGet(mappings, o.field) ELSE "_id"
             direction == IF order_by # {}
                          THEN (IF o.direction = "ASC" THEN 1 ELSE -1)
                          ELSE 1
             limit == LimitOf(first)
         IN {LET results == Take(sorted, limit + 1)
                 has_next_page == HasNextPage(results, limit)
             IN [err |-> "ok",
                 items |-> IF has_next_page THEN SubSeq(results, 1, Len(results) - 1)
                           ELSE results,
                 has_next |-> has_next_page] :
             sorted \in SortBy(Find(coll, query), field, direction)}

\* get_users_with_filters(first, after, filter_params, order_by)
GetUsersOrdered(first, after, fp, order_by) ==
    PaginateOrdered(users, UserFieldMappings, first, after, fp, order_by)

\* A client starts listing the users in a given order.
StartOrderedListing(firsts, orders) ==
    /\ sess.state = "none"
    /\ \E first \in firsts, order_by \in orders :
          sess' = [NoSess EXCEPT !.state = "open", !.first = first, !.order_by = order_by]
    /\ UNCHANGED <<users, friendships, nextOid, nextUuid4, now, tasks, ret>>

\* The client fetches the next page with the cursor of the last item.
FetchOrderedPage ==
    /\ sess.state = "open"
    /\ \E r \in GetUsersOrdered(sess.first, sess.after, sess.fp, sess.order_by) :
          LET n == Len(r.items)
          IN sess' = [sess EXCEPT
                         !.last = r, !.at = users, !.n = sess.n + 1,
                         !.seen = sess.seen \o r.items,
                         !.after = IF n > 0 THEN EdgeCursor(r.items[n]) ELSE sess.after,
                         !.state = IF n > 0 THEN "open" ELSE "end"]
    /\ UNCHANGED <<users, friendships, nextOid, nextUuid4, now, tasks, ret>>

\* User i, whose create_user read the clock at ts.
OrderedUser(i, ts) ==
    UserDoc([IdleFrame EXCEPT !.email = Email(i), !.name = Name(i), !.is_active = {TRUE},
                              !.code = Code(i), !.uuid = OidStr(2 * i - 1), !.oid = 2 * i,
                              !.ts = ts])

\* Users inserted one after the other; concurrent create_user calls read the
\* clock in any order before they insert.
InitOrdered ==
    /\ \E stamps \in [1..MaxOrdered -> 1..MaxOrdered] :
          users = {OrderedUser(i, stamps[i]) : i \in 1..MaxOrdered}
    /\ nextOid = 2 * MaxOrdered + 1
    /\ friendships = {}
    /\ nextUuid4 = 1
    /\ now = MaxOrdered
    /\ tasks = [t \in Tasks |-> IdleFrame]
    /\ sess = NoSess
    /\ ret = NoRet

NextOrdered ==
    \/ StartOrderedListing({Int1(1), Int1(2)},
                           {OrderBy("created_at", "ASC"), OrderBy("created_at", "DESC"), {}})
    \/ FetchOrderedPage

SpecOrdered == InitOrdered /\ [][NextOrdered]_vars

\* C26: a listing with an explicit order_by, followed page by page to its
\* end, has returned every user exactly once.
C26_OrderedExactlyOnce ==
    sess.state = "end" /\ sess.order_by # {}
    => \A d \in users : Cardinality({i \in 1..Len(sess.seen) : sess.seen[i] = d}) = 1

----------------------------------------------------------------------------
(* search_users *)

\* filter_params[key] = value on a dict kept as the sequence of its items.
FilterSet(fp, key, value) ==
    IF FilterHas(fp, key)
    THEN [i \in 1..Len(fp) |-> IF fp[i][1] = key THEN <<key, value>> ELSE fp[i]]
    ELSE Append(fp, <<key, value>>)

\* get_users_with_filters(first, after, filter_params, search_query=...)
GetUsersWithSearch(first, after, fp, search_query) ==
    LET filter_params ==
           IF Truthy(search_query)
           THEN FilterSet(fp, "$or",
                          OrList(<<DictSet(EmptyDict, "name_contains", Val(search_query)),
                                   DictSet(EmptyDict, "email_contains", Val(search_query))>>))
           ELSE fp
    IN Paginate(users, UserFieldMappings, first, after, filter_params)

CallGetUsersWithSearch(firsts, afters, queries) ==
    /\ \E first \in firsts, after \in afters, query \in queries :
          ret' = [op |-> "get_users_with_search", first |-> first, after |-> after,
                  query |-> query, page |-> GetUsersWithSearch(first, after, <<>>, query)]
    /\ UNCHANGED <<users, friendships, nextOid, nextUuid4, now, tasks, sess>>

\* Query.search_users(query, first, after): resolve_user_connection is
\* called with the keyword search_query, which it does not accept.
SearchUsers(firsts, afters, queries) ==
    /\ \E first \in firsts, after \in afters, query \in queries :
          ret' = [op |-> "search_users", first |-> first, after |-> after,
                  query |-> query, out |-> Raised("TypeError")]
    /\ UNCHANGED <<users, friendships, nextOid, nextUuid4, now, tasks, sess>>

NextSearch ==
    \/ SearchUsers({NoInt, Int1(2)}, {None, OidStr(2 * MaxFilterUsers)},
                   {Name(1), Email(2), Name(MaxFilterUsers + 1)})
    \/ CallGetUsersWithSearch({NoInt, Int1(2)}, {None, OidStr(2 * MaxFilterUsers)},
                              {Name(1), Email(2), Name(MaxFilterUsers + 1)})

SpecSearch == InitFilter /\ [][NextSearch]_vars

\* The users whose name or email contains query.
Found(query) == {d \in users : Contains(d.name, query) \/ Contains(d.email, query)}

\* C27: search_users(query), and get_users_with_filters with
\* search_query = query, called without cursor and with the default page
\* size, return exactly the users whose name or email contains query.
C27_SearchFindsNameOrEmail ==
    /\ ret.op = "search_users" /\ ret.first = NoInt /\ ret.after = None
       => /\ ret.out.err = "ok"
          /\ {ret.out.edges[i].node.uuid : i \in 1..Len(ret.out.edges)}
                = {d.uuid : d \in Found(ret.query)}
    /\ ret.op = "get_users_with_search" /\ ret.first = NoInt /\ ret.after = None
       => /\ ret.page.err = "ok"
          /\ {ret.page.items[i] : i \in 1..Len(ret.page.items)} = Found(ret.query)

----------------------------------------------------------------------------
(* Listing the users while delete_user calls commit between the fetches *)

InitDelete ==
    /\ users = SeedUsers(MaxDelUsers, "alt")
    /\ nextOid = 2 * MaxDelUsers + 1
    /\ friendships = {}
    /\ nextUuid4 = 1
    /\ now = 0
    /\ tasks = [t \in Tasks |-> IdleFrame]
    /\ sess = NoSess
    /\ ret = NoRet

NextDelete ==
    \/ StartListing({Int1(1), Int1(2)}, ActiveFilters)
    \/ FetchPage
    \/ \E t \in Tasks : CallDeleteUser(t, {OidStr(2 * i - 1) : i \in 1..MaxDelUsers})
    \/ \E t \in Tasks : DeleteOneUser(t)
    \/ \E t \in Tasks : Return(t)

SpecDelete == InitDelete /\ [][NextDelete]_vars

\* C30: with delete_user calls committing between the fetches of a listing
\* under the default sort, every page fetched is exactly the first
\* page_size selected records, in _id order, of the store at its fetch whose
\* _id is greater than the cursor, whether or not the cursor's record still
\* exists; no record is returned twice, and a listing followed to its end
\* has returned every selected record that is still in the store.
C30_CursorSurvivesDelete ==
    /\ sess.n > 0
       => /\ sess.last.err = "ok"
          /\ sess.last.items
                = Take(SortById({d \in sess.at : Selected(d, sess.fp) /\ d._id > PassedBefore}),
                       LimitOf(sess.first))
    /\ \A i, j \in 1..Len(sess.seen) : i < j => sess.seen[i]._id < sess.seen[j]._id
    /\ sess.state = "end"
       => \A d \in users : Selected(d, sess.fp) => \E i \in 1..Len(sess.seen) : sess.seen[i] = d

\* C30's case: the page before the last ended on a record that was deleted
\* before the last fetch, and the last fetch, made with that record's
\* cursor, returned records.
C30_Witness ==
    /\ sess.n >= 2
    /\ sess.last.items # <<>>
    /\ \A d \in sess.at : d._id # PassedBefore
    /\ \E d \in sess.at : d._id < PassedBefore /\ Selected(d, sess.fp)

====
